---- MODULE Spec2Model ----
(***************************************************************************)
(* Bookshelf manager (src/main.ts): Book / BookBuilder, the Add and Remove *)
(* commands, the observable Library with its localStorage persistence, the *)
(* DOM observer, the search strategies and the page wiring.                *)
(*                                                                         *)
(* JavaScript values are tagged records [t, v]; a string is a tuple of     *)
(* one-character strings.  The value kept under the localStorage key is a  *)
(* text: either raw characters that are no JSON, or the JSON text of a     *)
(* document tree.                                                          *)
(*                                                                         *)
(* Library.notify is modelled one update at a time (round, NotifyStep);    *)
(* everything else a handler does is one step.  Four specifications drive  *)
(* the same actions: Spec (persistence, two instances over one store),     *)
(* SpecCmd (commands), SpecObs (observers) and SpecPage (the page), and    *)
(* further ones each for one side of the Library.                          *)
(***************************************************************************)
EXTENDS Integers, Sequences, FiniteSets, TLC

VARIABLES
  store,        \* localStorage["bookLibrary"]: the item, or absent
  constructed,  \* constructed[L]: the Library instance L exists
  books,        \* books[L]: Library.books
  observers,    \* observers[L]: Library.observers
  round,        \* the forEach of Library.notify in progress
  received,     \* observers whose update ran during the current/last call
  rendered,     \* children of the bookList element
  alerts,       \* alert() dialogs raised by the last handler
  strategy,     \* SearchManager.strategy
  cmd,          \* the command object a caller holds
  detached,     \* detached[L]: observers detached and not attached since
  handle,       \* the array a caller got from getBooks() and kept
  last          \* the last call made: its arguments and what it started from

vars == << store, constructed, books, observers, round, received, rendered,
           alerts, strategy, cmd, detached, handle, last >>

----------------------------------------------------------------------------
(* Bounds of the model *)

MaxBooks == 2
MaxObs == 2

Libs == {"A", "B"}

----------------------------------------------------------------------------
(* JavaScript values *)

Str(s) == [t |-> "string", v |-> s]
Num(n) == [t |-> "number", v |-> n]
Undefined == [t |-> "undefined", v |-> 0]
Null == [t |-> "null", v |-> 0]
Bool(b) == [t |-> "boolean", v |-> b]
Arr(s) == [t |-> "array", v |-> s]
Obj(f) == [t |-> "object", v |-> f]

----------------------------------------------------------------------------
(* Book and BookBuilder *)

BookKeys == {"title", "author", "year", "id", "genre"}

\* new Book(title, author, year, id): genre is left unset
NewBook(title, author, year, id) ==
  [title |-> title, author |-> author, year |-> year, id |-> id,
   genre |-> Undefined]

\* new BookBuilder(title, author, year, id) [.setGenre(genre)] .build()
Build(title, author, year, id, genre) ==
  [NewBook(title, author, year, id) EXCEPT !.genre = genre]

Ring == Build(Str(<<"R","i","n","g">>), Str(<<"T","o","l","k","i","e","n">>),
              Num(1954), Str(<<"a">>), Undefined)
Emma == Build(Str(<<"E","m","m","a">>), Str(<<"A","u","s","t","e","n">>),
              Num(1955), Str(<<"a">>), Str(<<"n","o","v","e","l">>))
Dune == Build(Str(<<"D","u","n","e">>), Str(<<"H","e","r","b","e","r","t">>),
              Num(1965), Str(<<"b">>), Undefined)

\* the books callers hand to the Library
BookPool == << Ring, Emma, Dune >>

----------------------------------------------------------------------------
(* localStorage item and JSON *)

NoItem == [kind |-> "absent"]
RawText(chars) == [kind |-> "raw", chars |-> chars]
JsonText(doc) == [kind |-> "json", doc |-> doc]

\* JSON.stringify of a property value: NaN is written as null
JsonValue(v) == IF v.t = "nan" THEN [t |-> "null", v |-> 0] ELSE v

\* JSON.stringify of one Book: own properties whose value is not undefined
StringifyBook(b) ==
  Obj([k \in {key \in BookKeys : b[key].t # "undefined"} |->
         JsonValue(b[k])])

\* JSON.stringify(this.books)
JSONStringify(bs) ==
  JsonText(Arr([i \in 1..Len(bs) |-> StringifyBook(bs[i])]))

\* JSON.parse(text): the value, or a SyntaxError
JSONParse(text) ==
  IF text.kind = "json"
    THEN [exc |-> "none", value |-> text.doc]
    ELSE [exc |-> "SyntaxError", value |-> Undefined]

\* a string's truthiness, as tested by if (storedBooks)
Truthy(item) ==
  /\ item.kind # "absent"
  /\ item.kind = "raw" => item.chars # << >>

\* bookData.title etc.: property read on a parsed value
CanRead(val) == val.t \notin {"null", "undefined"}

GetProp(val, key) ==
  IF val.t = "object" /\ key \in DOMAIN val.v THEN val.v[key] ELSE Undefined

----------------------------------------------------------------------------
(* Library: persistence *)

\* mutant: no Array.isArray test, map is called on whatever was parsed
TryLoadNoShapeTest(text) ==
  LET parsed == JSONParse(text) IN
  IF parsed.exc # "none"
    THEN [exc |-> parsed.exc, books |-> << >>, log |-> << >>]
  ELSE IF parsed.value.t = "array"
    THEN LET elems == parsed.value.v IN
         IF \E i \in 1..Len(elems) : ~CanRead(elems[i])
           THEN [exc |-> "TypeError", books |-> << >>, log |-> << >>]
           ELSE [exc |-> "none",
                 books |-> [i \in 1..Len(elems) |->
                              NewBook(GetProp(elems[i], "title"),
                                      GetProp(elems[i], "author"),
                                      GetProp(elems[i], "year"),
                                      GetProp(elems[i], "id"))],
                 log |-> << >>]
    ELSE [exc |-> "TypeError", books |-> << >>, log |-> << >>]

\* the body of the try block of loadFromLocalStorage
TryLoad(text) ==
  LET parsed == JSONParse(text) IN
  IF parsed.exc # "none"
    THEN [exc |-> parsed.exc, books |-> << >>, log |-> << >>]
  ELSE IF parsed.value.t = "array"
    THEN LET elems == parsed.value.v IN
         IF \E i \in 1..Len(elems) : ~CanRead(elems[i])
           THEN [exc |-> "TypeError", books |-> << >>, log |-> << >>]
           ELSE [exc |-> "none",
                 books |-> [i \in 1..Len(elems) |->
                              NewBook(GetProp(elems[i], "title"),
                                      GetProp(elems[i], "author"),
                                      GetProp(elems[i], "year"),
                                      GetProp(elems[i], "id"))],
                 log |-> << >>]
    ELSE [exc |-> "none", books |-> << >>,
          log |-> << << "Invalid data", "none" >> >>]

\* mutant: a handler for the parse error alone
CatchesSyntaxError(exc) == exc = "SyntaxError"

\* catch (error): which exceptions of the try block the handler takes
Catches(exc) == exc # "none"

\* Library.loadFromLocalStorage on a new instance (books = []):
\* the collection, the item left in the store, console.error output (the
\* message and the error passed with it), and the exception that leaves the
\* method
LoadFromLocalStorage(item) ==
  IF ~Truthy(item)
    THEN [books |-> << >>, store |-> item, log |-> << >>, exc |-> "none"]
    ELSE LET try == TryLoad(item) IN
         IF try.exc = "none"
           THEN [books |-> try.books, store |-> item, log |-> try.log,
                 exc |-> "none"]
         ELSE IF Catches(try.exc)
           THEN [books |-> << >>, store |-> NoItem,
                 log |-> << << "Error parsing", try.exc >> >>, exc |-> "none"]
           ELSE [books |-> << >>, store |-> item, log |-> << >>,
                 exc |-> try.exc]

\* Library.saveToLocalStorage: the item written
SaveToLocalStorage(bs) == JSONStringify(bs)

----------------------------------------------------------------------------
(* Library: collection and observer list *)

\* mutant: unshift in place of push
PushBookFront(bs, b) == << b >> \o bs

\* this.books.push(book)
PushBook(bs, b) == Append(bs, b)

\* mutant: === in place of !==
FilterKeepId(bs, b) == SelectSeq(bs, LAMBDA x : x.id = b.id)

\* mutant: splice(findIndex(...), 1), the first entry of the id only
FilterOutFirstId(bs, b) ==
  IF \E i \in 1..Len(bs) : bs[i].id = b.id
    THEN LET k == CHOOSE i \in 1..Len(bs) :
                    bs[i].id = b.id /\ \A j \in 1..(i - 1) : bs[j].id # b.id
         IN SubSeq(bs, 1, k - 1) \o SubSeq(bs, k + 1, Len(bs))
    ELSE bs

\* this.books.filter((b) => b.id !== book.id)
FilterOutId(bs, b) == SelectSeq(bs, LAMBDA x : x.id # b.id)

\* mutant: an observer already registered is not registered again
PushObserverOnce(obs, o) ==
  IF \E i \in 1..Len(obs) : obs[i] = o THEN obs ELSE Append(obs, o)

\* this.observers.push(observer)
PushObserver(obs, o) == Append(obs, o)

\* mutant: splice(indexOf(observer), 1), the first registration only
RemoveFirstObserver(obs, o) ==
  IF \E i \in 1..Len(obs) : obs[i] = o
    THEN LET k == CHOOSE i \in 1..Len(obs) :
                    obs[i] = o /\ \A j \in 1..(i - 1) : obs[j] # o
         IN SubSeq(obs, 1, k - 1) \o SubSeq(obs, k + 1, Len(obs))
    ELSE obs

\* this.observers.filter((obs) => obs !== observer)
FilterOutObserver(obs, o) == SelectSeq(obs, LAMBDA x : x # o)

\* mutant: the observers are visited last to first
ForEachReversed(obs) == [i \in 1..Len(obs) |-> obs[Len(obs) + 1 - i]]

\* the elements this.observers.forEach visits, in order
ForEachOrder(obs) == obs

\* mutant: the list is saved before the push
LibAddBookSaveFirst(bs, b) ==
  [books |-> PushBook(bs, b), item |-> SaveToLocalStorage(bs),
   notify |-> TRUE, fresh |-> FALSE]

\* mutant: the entries of the new book's id give way to it
LibAddBookReplacing(bs, b) ==
  LET pushed == PushBook(FilterOutId(bs, b), b) IN
  [books |-> pushed, item |-> SaveToLocalStorage(pushed), notify |-> TRUE,
   fresh |-> TRUE]

\* mutant: the book is pushed onto what the store holds, read anew
LibAddBookMerging(bs, b) ==
  LET pushed == PushBook(LoadFromLocalStorage(store).books, b) IN
  [books |-> pushed, item |-> SaveToLocalStorage(pushed), notify |-> TRUE,
   fresh |-> TRUE]

\* Library.addBook: the collection, the item saved, whether notify runs,
\* and whether this.books is a new array (fresh) or the one there was:
\* push works on the array in place
LibAddBook(bs, b) ==
  LET pushed == PushBook(bs, b) IN
  [books |-> pushed, item |-> SaveToLocalStorage(pushed), notify |-> TRUE,
   fresh |-> FALSE]

\* mutant: the entries are spliced out of the array in place
LibRemoveBookInPlace(bs, b) ==
  LET kept == FilterOutId(bs, b) IN
  [books |-> kept, item |-> SaveToLocalStorage(kept), notify |-> TRUE,
   fresh |-> FALSE]

\* Library.removeBook: this.books is assigned the array filter returns
LibRemoveBook(bs, b) ==
  LET kept == FilterOutId(bs, b) IN
  [books |-> kept, item |-> SaveToLocalStorage(kept), notify |-> TRUE,
   fresh |-> TRUE]

----------------------------------------------------------------------------
(* Search strategies *)

NaN == [t |-> "nan", v |-> 0]

UpperCase == << "A","B","C","D","E","F","G","H","I","J","K","L","M",
                "N","O","P","Q","R","S","T","U","V","W","X","Y","Z" >>
LowerCase == << "a","b","c","d","e","f","g","h","i","j","k","l","m",
                "n","o","p","q","r","s","t","u","v","w","x","y","z" >>
Digits == << "0","1","2","3","4","5","6","7","8","9" >>
WhiteSpace == {" "}

LowerChar(c) ==
  IF \E i \in 1..Len(UpperCase) : UpperCase[i] = c
    THEN LowerCase[CHOOSE i \in 1..Len(UpperCase) : UpperCase[i] = c]
    ELSE c

\* String.prototype.toLowerCase
ToLowerCase(s) == [i \in 1..Len(s) |-> LowerChar(s[i])]

\* String.prototype.includes
Includes(hay, needle) ==
  \E k \in 0..(Len(hay) - Len(needle)) :
     \A i \in 1..Len(needle) : hay[k + i] = needle[i]

IsDigit(c) == \E i \in 1..Len(Digits) : Digits[i] = c
DigitValue(c) == (CHOOSE i \in 1..Len(Digits) : Digits[i] = c) - 1

RECURSIVE SkipWhiteSpace(_)
SkipWhiteSpace(s) ==
  IF s # << >> /\ Head(s) \in WhiteSpace THEN SkipWhiteSpace(Tail(s)) ELSE s

RECURSIVE DigitPrefix(_, _)
\* the value of the longest prefix of digits of s, continuing from acc
DigitPrefix(s, acc) ==
  IF s # << >> /\ IsDigit(Head(s))
    THEN DigitPrefix(Tail(s), 10 * acc + DigitValue(Head(s)))
    ELSE acc

\* parseInt(query): white space, an optional sign, then the longest prefix of
\* decimal digits; NaN when there is none (no input of the model starts
\* with the hexadecimal prefix 0x)
ParseInt(q) ==
  LET s == SkipWhiteSpace(q)
      neg == s # << >> /\ Head(s) = "-"
      body == IF s # << >> /\ Head(s) \in {"-", "+"} THEN Tail(s) ELSE s
  IN IF body = << >> \/ ~IsDigit(Head(body))
       THEN NaN
       ELSE Num(IF neg THEN 0 - DigitPrefix(body, 0) ELSE DigitPrefix(body, 0))

\* a === b on values
StrictEq(a, b) == a.t # "nan" /\ a = b

\* TitleSearchStrategy.search / AuthorSearchStrategy.search on one field:
\* toLowerCase is no method of a value that is not a string.
\* hits: the array returned; array: the array passed in (the Library's own,
\* handed out by getBooks), as the call leaves it
FieldSearch(bs, field, q) ==
  IF \E i \in 1..Len(bs) : bs[i][field].t # "string"
    THEN [exc |-> "TypeError", hits |-> << >>, array |-> bs]
    ELSE [exc |-> "none",
          hits |-> SelectSeq(bs, LAMBDA b :
                     Includes(ToLowerCase(b[field].v), ToLowerCase(q))),
          array |-> bs]

\* mutant: the title strategy looks at the author
TitleSearchByAuthor(bs, q) == FieldSearch(bs, "author", q)

\* TitleSearchStrategy.search
TitleSearch(bs, q) == FieldSearch(bs, "title", q)

\* AuthorSearchStrategy.search
AuthorSearch(bs, q) == FieldSearch(bs, "author", q)

\* mutant: the array passed in is cut down to the matches in place
YearSearchInPlace(bs, q) ==
  LET year == ParseInt(q) IN
  IF year.t = "nan"
    THEN [exc |-> "none", hits |-> << >>, array |-> << >>]
    ELSE [exc |-> "none",
          hits |-> SelectSeq(bs, LAMBDA b : StrictEq(b.year, year)),
          array |-> SelectSeq(bs, LAMBDA b : StrictEq(b.year, year))]

\* YearSearchStrategy.search
YearSearch(bs, q) ==
  LET year == ParseInt(q) IN
  IF year.t = "nan"
    THEN [exc |-> "none", hits |-> << >>, array |-> bs]
    ELSE [exc |-> "none",
          hits |-> SelectSeq(bs, LAMBDA b : StrictEq(b.year, year)),
          array |-> bs]

\* SearchManager.search: delegates to the active strategy
ManagerSearch(strat, bs, q) ==
  CASE strat = "title" -> TitleSearch(bs, q)
    [] strat = "author" -> AuthorSearch(bs, q)
    [] strat = "year" -> YearSearch(bs, q)

----------------------------------------------------------------------------
(* DOM *)

\* Book.displayInfo: the text of a block
DisplayInfo(b) == << b.title, b.author, b.year >>

\* a div.book-item; button: it carries a Delete button bound to book
BookItem(b, button) ==
  [tag |-> "book-item", info |-> DisplayInfo(b), button |-> button, book |-> b]

\* <p>No books found.</p>
NoBooksFound ==
  [tag |-> "p", info |-> << >>, button |-> FALSE, book |-> Ring]

\* mutant: the blocks are appended, bookList is not emptied first
DomUpdateNoClear(bs) ==
  rendered \o [i \in 1..Len(bs) |-> BookItem(bs[i], TRUE)]

\* DOMObserver.update: bookList after the redraw
DomUpdate(bs) == [i \in 1..Len(bs) |-> BookItem(bs[i], TRUE)]

\* the search handler's display of its results
SearchDisplay(hits) ==
  IF Len(hits) = 0
    THEN << NoBooksFound >>
    ELSE [i \in 1..Len(hits) |-> BookItem(hits[i], FALSE)]

----------------------------------------------------------------------------
(* State *)

\* the observers of the model: the page's DOMObserver (bound to bookList and
\* to Library A) and a plain IObserver
Observers == {"dom", "spy"}
DomLibrary == "A"

NoBook == NewBook(Undefined, Undefined, Undefined, Undefined)
NoCmd == [kind |-> "none", lib |-> "A", book |-> NoBook, st |-> "none",
          pre |-> << >>]

\* items found under the key when a Library is first constructed
StoredInputs ==
  << NoItem,
     RawText(<< >>),
     RawText(<< "n","o","t"," ","j","s","o","n"," ","{" >>),
     JsonText(Obj([a |-> Num(1)])),
     JsonText(Num(5)),
     JsonText(Str(<< "x" >>)),
     JsonText(Bool(TRUE)),
     JsonText(Null),
     JsonText(Arr(<< >>)),
     JsonText(Arr(<< Null >>)),
     JsonText(Arr(<< Num(7) >>)),
     JSONStringify(<< Dune >>) >>

\* no array kept
NoHandle == [held |-> FALSE, lib |-> "A", same |-> FALSE, contents |-> << >>]

\* mutant: a loop that reads the length anew before each call
ForEachBoundLive(len, list) == Len(list)

\* the index forEach stops after: the length of the array as read once,
\* before the first call; list is the array as it is now
ForEachBound(len, list) == len

\* no forEach of notify is under way
Idle == round.idx > ForEachBound(round.len, round.list)

\* the record of a call: the operation, its receiver and its arguments
\* (input: the strings given, a query or the three input fields), and what
\* came back (hits: the array a search returned)
Call(op, L, b, o) ==
  [op |-> op, lib |-> L, book |-> b, obs |-> o, after |-> "-",
   log |-> << >>, exc |-> "none", input |-> << >>, hits |-> << >>]

\* the array kept, once this.books of Library L holds contents: in a new
\* array (fresh) or in the array it was. same: the array kept is the one
\* this.books refers to
HandleAfter(L, contents, fresh) ==
  IF handle.held /\ handle.lib = L /\ handle.same
    THEN IF fresh THEN [handle EXCEPT !.same = FALSE]
                  ELSE [handle EXCEPT !.contents = contents]
    ELSE handle

\* the command held, once another call has been made on Library L
Intervene(L) ==
  IF cmd.st = "executed" /\ cmd.lib = L THEN [cmd EXCEPT !.st = "stale"]
                                         ELSE cmd

Init ==
  /\ \E i \in 1..Len(StoredInputs) : store = StoredInputs[i]
  /\ constructed = [L \in Libs |-> FALSE]
  /\ books = [L \in Libs |-> << >>]
  /\ observers = [L \in Libs |-> << >>]
  /\ round = [lib |-> "A", list |-> << >>, idx |-> 1, start |-> << >>,
              len |-> 0, same |-> TRUE]
  /\ received = << >>
  /\ rendered = << >>
  /\ alerts = << >>
  /\ strategy = "title"
  /\ cmd = NoCmd
  /\ detached = [L \in Libs |-> {}]
  /\ handle = NoHandle
  /\ last = Call("init", "A", NoBook, "none")

----------------------------------------------------------------------------
(* Library operations *)

\* new Library(): L names the new instance; what was bound to the instance
\* L named before (its observers, a command on it) is gone with it
Construct(L) ==
  /\ Idle
  /\ LET r == LoadFromLocalStorage(store) IN
     /\ books' = [books EXCEPT ![L] = r.books]
     /\ store' = r.store
     /\ last' = [Call("construct", L, NoBook, "none") EXCEPT
                   !.log = r.log, !.exc = r.exc,
                   !.after = IF last.lib # L THEN last.op ELSE "-"]
     /\ constructed' = [constructed EXCEPT ![L] = (r.exc = "none")]
  /\ observers' = [observers EXCEPT ![L] = << >>]
  /\ detached' = [detached EXCEPT ![L] = {}]
  /\ cmd' = IF cmd.lib = L THEN NoCmd ELSE cmd
  /\ handle' = IF handle.lib = L THEN NoHandle ELSE handle
  /\ UNCHANGED << round, received, rendered, alerts, strategy >>

\* Library.attach
Attach(L, o) ==
  /\ Idle /\ constructed[L]
  /\ Len(observers[L]) < MaxObs
  /\ observers' = [observers EXCEPT ![L] = PushObserver(@, o)]
  /\ detached' = [detached EXCEPT ![L] = @ \ {o}]
  /\ last' = Call("attach", L, NoBook, o)
  /\ UNCHANGED << store, constructed, books, round, received, rendered,
                  alerts, strategy, cmd, handle >>

\* Library.detach
Detach(L, o) ==
  /\ Idle /\ constructed[L]
  /\ observers' = [observers EXCEPT ![L] = FilterOutObserver(@, o)]
  /\ detached' = [detached EXCEPT ![L] = @ \cup {o}]
  /\ last' = Call("detach", L, NoBook, o)
  /\ UNCHANGED << store, constructed, books, round, received, rendered,
                  alerts, strategy, cmd, handle >>

\* Library.getBooks, the result used and let go
GetBooks(L) ==
  /\ Idle /\ constructed[L]
  /\ last' = Call("getBooks", L, NoBook, "none")
  /\ UNCHANGED << store, constructed, books, observers, round, received,
                  rendered, alerts, strategy, cmd, detached, handle >>

\* const h = library.getBooks(): the caller keeps what getBooks returns,
\* this.books itself
KeepBooks(L) ==
  /\ Idle /\ constructed[L]
  /\ handle' = [held |-> TRUE, lib |-> L, same |-> TRUE,
                contents |-> books[L]]
  /\ last' = Call("keepBooks", L, NoBook, "none")
  /\ UNCHANGED << store, constructed, books, observers, round, received,
                  rendered, alerts, strategy, cmd, detached >>

\* the part of addBook / removeBook up to the start of notify's forEach
Mutation(L, r) ==
  /\ books' = [books EXCEPT ![L] = r.books]
  /\ handle' = HandleAfter(L, r.books, r.fresh)
  /\ store' = r.item
  /\ received' = << >>
  /\ round' = [lib |-> L,
               list |-> IF r.notify THEN ForEachOrder(observers[L]) ELSE << >>,
               idx |-> 1,
               start |-> observers[L],
               len |-> IF r.notify THEN Len(observers[L]) ELSE 0,
               same |-> TRUE]

\* library.addBook(book) or library.removeBook(book), by the method's name
LibraryCall(method, L, b) ==
  /\ method = "addBook" => Len(books[L]) < MaxBooks
  /\ Mutation(L, IF method = "addBook" THEN LibAddBook(books[L], b)
                                       ELSE LibRemoveBook(books[L], b))

\* Library.addBook called directly
AddBook(L, b) ==
  /\ Idle /\ constructed[L]
  /\ LibraryCall("addBook", L, b)
  /\ last' = Call("addBook", L, b, "none")
  /\ cmd' = Intervene(L)
  /\ UNCHANGED << constructed, observers, rendered, alerts, strategy,
                  detached >>

\* Library.removeBook called directly
RemoveBook(L, b) ==
  /\ Idle /\ constructed[L]
  /\ LibraryCall("removeBook", L, b)
  /\ last' = Call("removeBook", L, b, "none")
  /\ cmd' = Intervene(L)
  /\ UNCHANGED << constructed, observers, rendered, alerts, strategy,
                  detached >>

\* one call of observer.update(this) by notify's forEach
NotifyStep ==
  /\ ~Idle
  /\ LET o == round.list[round.idx] IN
     /\ received' = Append(received, o)
     /\ rendered' = IF o = "dom" THEN DomUpdate(books[round.lib]) ELSE rendered
  /\ round' = [round EXCEPT !.idx = @ + 1]
  /\ UNCHANGED << store, constructed, books, observers, alerts, strategy,
                  cmd, detached, handle, last >>

\* one call of update(this) on an IObserver of the caller's making, which
\* calls library.attach(x) from inside update: the push lands in
\* this.observers, the array forEach walks unless a detach has replaced it
UpdateAttaching(x) ==
  /\ ~Idle
  /\ round.list[round.idx] # "dom"
  /\ Len(observers[round.lib]) < MaxObs
  /\ received' = Append(received, round.list[round.idx])
  /\ observers' = [observers EXCEPT ![round.lib] = PushObserver(@, x)]
  /\ detached' = [detached EXCEPT ![round.lib] = @ \ {x}]
  /\ round' = [round EXCEPT
                 !.idx = @ + 1,
                 !.list = IF round.same THEN PushObserver(@, x) ELSE @]
  /\ UNCHANGED << store, constructed, books, rendered, alerts, strategy,
                  cmd, handle, last >>

\* one call of update(this) on an IObserver of the caller's making, which
\* calls library.detach(x) from inside update: this.observers becomes the
\* array filter returns, forEach goes on walking the one it started on
UpdateDetaching(x) ==
  /\ ~Idle
  /\ round.list[round.idx] # "dom"
  /\ received' = Append(received, round.list[round.idx])
  /\ observers' = [observers EXCEPT ![round.lib] = FilterOutObserver(@, x)]
  /\ detached' = [detached EXCEPT ![round.lib] = @ \cup {x}]
  /\ round' = [round EXCEPT !.idx = @ + 1, !.same = FALSE]
  /\ UNCHANGED << store, constructed, books, rendered, alerts, strategy,
                  cmd, handle, last >>

----------------------------------------------------------------------------
(* Commands *)

\* the Library method a command's execute() calls
ExecuteCalls(kind) == IF kind = "add" THEN "addBook" ELSE "removeBook"

\* the Library method a command's undo() calls
UndoCalls(kind) == IF kind = "add" THEN "removeBook" ELSE "addBook"

\* new AddBookCommand(L, b).execute() / new RemoveBookCommand(L, b).execute(),
\* the caller keeping the command; pre: the collection execute() started from
CmdExecute(kind, L, b) ==
  /\ Idle /\ constructed[L]
  /\ LibraryCall(ExecuteCalls(kind), L, b)
  /\ cmd' = [kind |-> kind, lib |-> L, book |-> b, st |-> "executed",
             pre |-> books[L]]
  /\ last' = Call("execute", L, b, "none")
  /\ UNCHANGED << constructed, observers, rendered, alerts, strategy,
                  detached >>

\* undo() of the command held; st tells whether it follows execute() at once
CmdUndo ==
  /\ Idle /\ cmd.st \in {"executed", "stale"} /\ constructed[cmd.lib]
  /\ LibraryCall(UndoCalls(cmd.kind), cmd.lib, cmd.book)
  /\ cmd' = [cmd EXCEPT !.st = IF cmd.st = "executed" THEN "undone"
                                                      ELSE "undoneLate"]
  /\ last' = Call("undo", cmd.lib, cmd.book, "none")
  /\ UNCHANGED << constructed, observers, rendered, alerts, strategy,
                  detached >>

----------------------------------------------------------------------------
(* SearchManager *)

StrategyKeys == {"title", "author", "year"}

Queries ==
  << << >>,
     << "d","U" >>,
     << "H","E","R","B" >>,
     << "1","9","6","5" >>,
     << "a","b","c" >> >>

\* SearchManager.setStrategy
SetStrategy(k) ==
  /\ Idle
  /\ strategy' = k
  /\ last' = Call("setStrategy", last.lib, NoBook, "none")
  /\ UNCHANGED << store, constructed, books, observers, round, received,
                  rendered, alerts, cmd, detached, handle >>

\* SearchManager.search(library.getBooks(), query): the result goes back to
\* the caller
Search(L, q) ==
  /\ Idle /\ constructed[L]
  /\ LET r == ManagerSearch(strategy, books[L], q) IN
     /\ books' = [books EXCEPT ![L] = r.array]
     /\ handle' = HandleAfter(L, r.array, FALSE)
     /\ last' = [Call("search", L, NoBook, "none") EXCEPT
                   !.exc = r.exc, !.input = << q >>, !.hits = r.hits]
  /\ UNCHANGED << store, constructed, observers, round, received,
                  rendered, alerts, strategy, cmd, detached >>

----------------------------------------------------------------------------
(* Page wiring: the DOMContentLoaded handler and the click handlers *)

\* DOMContentLoaded: new Library(), attach the DOMObserver, first draw,
\* new SearchManager(new TitleSearchStrategy())
PageLoad ==
  /\ Idle /\ ~constructed[DomLibrary]
  /\ LET r == LoadFromLocalStorage(store) IN
     /\ books' = [books EXCEPT ![DomLibrary] = r.books]
     /\ store' = r.store
     /\ last' = [Call("pageLoad", DomLibrary, NoBook, "dom") EXCEPT
                   !.log = r.log, !.exc = r.exc]
     /\ constructed' = [constructed EXCEPT ![DomLibrary] = (r.exc = "none")]
     /\ observers' = [observers EXCEPT ![DomLibrary] =
                        IF r.exc = "none" THEN PushObserver(<< >>, "dom")
                                          ELSE << >>]
     /\ rendered' = IF r.exc = "none" THEN DomUpdate(r.books) ELSE rendered
  /\ strategy' = "title"
  /\ detached' = [detached EXCEPT ![DomLibrary] = {}]
  /\ UNCHANGED << round, received, alerts, cmd, handle >>

\* the searchBtn click handler: setStrategy by the selected key, search,
\* display
SearchClick(k, q) ==
  /\ Idle /\ constructed[DomLibrary]
  /\ IF k \notin StrategyKeys
       THEN /\ alerts' = << "Invalid search strategy." >>
            /\ last' = [Call("searchClick", DomLibrary, NoBook, "none")
                          EXCEPT !.input = << q >>]
            /\ UNCHANGED << strategy, rendered, books, handle >>
       ELSE LET r == ManagerSearch(k, books[DomLibrary], q) IN
            /\ strategy' = k
            /\ books' = [books EXCEPT ![DomLibrary] = r.array]
            /\ handle' = HandleAfter(DomLibrary, r.array, FALSE)
            /\ alerts' = << >>
            /\ rendered' = IF r.exc = "none" THEN SearchDisplay(r.hits)
                                             ELSE rendered
            /\ last' = [Call("searchClick", DomLibrary, NoBook, "none")
                          EXCEPT !.exc = r.exc, !.input = << q >>,
                                 !.hits = r.hits]
  /\ UNCHANGED << store, constructed, observers, round, received,
                  cmd, detached >>

\* values typed into the title, author and year inputs
TitleInputs == << << >>, << "D","u","n","e" >> >>
AuthorInputs == << << >>, << "H","e","r","b","e","r","t" >> >>
YearInputs ==
  << << >>, << "1","9","6","5" >>, << "a","b","c" >>, << "1","9","6","5","x" >> >>

\* strings generateId() returns: two random base-36 fragments, nothing
\* keeps them apart from the ids already in the collection
Ids == << << "a" >>, << "b" >> >>

\* the addBookBtn click handler
AddClick(title, author, yearText) ==
  /\ Idle /\ constructed[DomLibrary]
  /\ LET year == ParseInt(yearText) IN
     IF title = << >> \/ author = << >> \/ year.t = "nan"
       THEN /\ alerts' = << "Please fill in all fields with valid data." >>
            /\ last' = [Call("addClick", DomLibrary, NoBook, "none") EXCEPT
                          !.input = << title, author, yearText >>]
            /\ UNCHANGED << store, books, round, received, cmd, handle >>
       ELSE \E n \in 1..Len(Ids) :
              LET newBook == Build(Str(title), Str(author), year,
                                   Str(Ids[n]), Undefined) IN
              /\ LibraryCall(ExecuteCalls("add"), DomLibrary, newBook)
              /\ alerts' = << >>
              /\ last' = [Call("addClick", DomLibrary, newBook, "none")
                            EXCEPT !.input = << title, author, yearText >>]
              /\ cmd' = Intervene(DomLibrary)
  /\ UNCHANGED << constructed, observers, rendered, strategy, detached >>

\* click on the Delete button of the i-th block of bookList
DeleteClick(i) ==
  /\ Idle /\ constructed[DomLibrary]
  /\ i \in 1..Len(rendered) /\ rendered[i].button
  /\ LibraryCall(ExecuteCalls("remove"), DomLibrary, rendered[i].book)
  /\ last' = Call("deleteClick", DomLibrary, rendered[i].book, "none")
  /\ cmd' = Intervene(DomLibrary)
  /\ UNCHANGED << constructed, observers, rendered, alerts, strategy,
                  detached >>

----------------------------------------------------------------------------
(* Specifications *)

\* books a caller may pass to Library L: built ones and ones held by L
Arguments(L) ==
  {BookPool[i] : i \in 1..Len(BookPool)}
    \cup {books[L][i] : i \in 1..Len(books[L])}

\* persistence: Library A is used, Library B is a further instance
\* constructed over the same store
Next ==
  \/ \E L \in Libs : Construct(L)
  \/ GetBooks("A")
  \/ \E b \in Arguments("A") : AddBook("A", b)
  \/ \E b \in Arguments("A") : RemoveBook("A", b)

Spec == Init /\ [][Next]_vars

\* commands on Library A, next to direct calls
NextCmd ==
  \/ Construct("A")
  \/ \E b \in Arguments("A") : AddBook("A", b)
  \/ \E b \in Arguments("A") : RemoveBook("A", b)
  \/ \E k \in {"add", "remove"} : \E b \in Arguments("A") : CmdExecute(k, "A", b)
  \/ CmdUndo

SpecCmd == Init /\ [][NextCmd]_vars

\* observers of Library A; the caller passes two books of different ids
ObsArguments == {Ring, Dune}

NextObs ==
  \/ Construct("A")
  \/ \E o \in Observers : Attach("A", o)
  \/ \E o \in Observers : Detach("A", o)
  \/ GetBooks("A")
  \/ \E b \in ObsArguments : AddBook("A", b)
  \/ \E b \in ObsArguments : RemoveBook("A", b)
  \/ NotifyStep

SpecObs == Init /\ [][NextObs]_vars

\* the page: its handlers run one at a time; the SearchManager is also
\* driven directly
NextPage ==
  \/ PageLoad
  \/ \E i \in 1..Len(TitleInputs), j \in 1..Len(AuthorInputs),
        k \in 1..Len(YearInputs) :
        AddClick(TitleInputs[i], AuthorInputs[j], YearInputs[k])
  \/ \E i \in 1..MaxBooks : DeleteClick(i)
  \/ \E k \in StrategyKeys \cup {"isbn"} : \E i \in 1..Len(Queries) :
        SearchClick(k, Queries[i])
  \/ \E k \in StrategyKeys : SetStrategy(k)
  \/ \E i \in 1..Len(Queries) : Search(DomLibrary, Queries[i])
  \/ NotifyStep

SpecPage == Init /\ [][NextPage]_vars

\* every operation of Library A next to the search strategies, the page's
\* DOMObserver being the observer at hand
LibQueries == << << >>, << "d","U" >> >>

NextLib ==
  \/ Construct("A")
  \/ Attach("A", "dom")
  \/ Detach("A", "dom")
  \/ GetBooks("A")
  \/ \E b \in ObsArguments : AddBook("A", b)
  \/ \E b \in ObsArguments : RemoveBook("A", b)
  \/ NotifyStep
  \/ \E k \in StrategyKeys : SetStrategy(k)
  \/ \E i \in 1..Len(LibQueries) : Search("A", LibQueries[i])

SpecLib == Init /\ [][NextLib]_vars

\* a caller of Library A keeps the array getBooks() returned
NextHandle ==
  \/ Construct("A")
  \/ KeepBooks("A")
  \/ \E b \in ObsArguments : AddBook("A", b)
  \/ \E b \in ObsArguments : RemoveBook("A", b)

SpecHandle == Init /\ [][NextHandle]_vars

\* observers of Library A that attach and detach from inside update; the
\* caller passes one book
RoundArguments == {Dune}

NextRound ==
  \/ Construct("A")
  \/ \E o \in Observers : Attach("A", o)
  \/ \E o \in Observers : Detach("A", o)
  \/ \E b \in RoundArguments : AddBook("A", b)
  \/ \E b \in RoundArguments : RemoveBook("A", b)
  \/ NotifyStep
  \/ \E x \in Observers : UpdateAttaching(x)
  \/ \E x \in Observers : UpdateDetaching(x)

SpecRound == Init /\ [][NextRound]_vars

\* two Library instances over the one store, both written through
NextTwo ==
  \/ \E L \in Libs : Construct(L)
  \/ \E L \in Libs : \E b \in ObsArguments : AddBook(L, b)
  \/ \E L \in Libs : \E b \in ObsArguments : RemoveBook(L, b)

SpecTwo == Init /\ [][NextTwo]_vars

\* queries given to the search strategies
SearchQueries ==
  << << >>,
     << "r","I","n","G" >>,
     << "T","O","L","K" >>,
     << "e" >>,
     << "1","9","5","4" >>,
     << "1","9","5","4","a","b","c" >>,
     << "a","b","c" >> >>

\* the strategies at work on the collection of Library A
NextSearch ==
  \/ Construct("A")
  \/ \E b \in Arguments("A") : AddBook("A", b)
  \/ \E k \in StrategyKeys : SetStrategy(k)
  \/ \E i \in 1..Len(SearchQueries) : Search("A", SearchQueries[i])

SpecSearch == Init /\ [][NextSearch]_vars

----------------------------------------------------------------------------
(* Persistence round trip *)

\* C1: after addBook on one Library, a Library constructed next over the
\* same store holds an equal collection: same length, same order, every
\* field of every book (title, author, year, id, genre) the same.
C1_RoundTrip ==
  (last.op = "construct" /\ last.after = "addBook" /\ last.lib = "B")
    => books["B"] = books["A"]

----------------------------------------------------------------------------
(* Commands and their inverses *)

\* the command held has just been executed and undone, nothing in between
JustUndone(kind) ==
  /\ Idle
  /\ last.op = "undo"
  /\ cmd.kind = kind /\ cmd.st = "undone"

HasEntry(bs, b) == \E i \in 1..Len(bs) : bs[i] = b
HasId(bs, id) == \E i \in 1..Len(bs) : bs[i].id = id

\* C2 as stated: for every book B of the collection, removeBook(B) followed
\* at once by addBook(B) (RemoveBookCommand.execute() then undo()) gives
\* back the sequence of books there was before.
C2_RemoveAddRestores ==
  (JustUndone("remove") /\ HasEntry(cmd.pre, cmd.book))
    => books[cmd.lib] = cmd.pre

\* C2 amended: removeBook(B) followed at once by addBook(B) gives the prior
\* sequence without the entries of B's id, then B; that is the prior sequence
\* exactly when B was its last entry and the only one of its id.
C2_RemoveAddMovesToEnd ==
  (JustUndone("remove") /\ HasEntry(cmd.pre, cmd.book))
    => LET pre == cmd.pre
           B == cmd.book
           others == SelectSeq(pre, LAMBDA x : x.id # B.id)
       IN /\ books[cmd.lib] = others \o << B >>
          /\ (books[cmd.lib] = pre) <=>
               (pre[Len(pre)] = B /\ Len(others) = Len(pre) - 1)

C2_Witness ==
  /\ JustUndone("remove") /\ HasEntry(cmd.pre, cmd.book)
  /\ Len(cmd.pre) = 2
  /\ books[cmd.lib] = cmd.pre

\* C3 as stated: AddBookCommand.execute() then undo() leaves the collection,
\* and the persisted snapshot, as they were before execute(), also when the
\* collection already held an entry of the added book's id.
C3_AddUndoRestores ==
  JustUndone("add")
    => /\ books[cmd.lib] = cmd.pre
       /\ store = JSONStringify(cmd.pre)

\* C3 amended: AddBookCommand.execute() then undo() leaves the collection,
\* and the persisted snapshot, as they were before execute(), provided the
\* collection held no entry of the added book's id before execute().
C3_AddUndoRestoresFreshId ==
  (JustUndone("add") /\ ~HasId(cmd.pre, cmd.book.id))
    => /\ books[cmd.lib] = cmd.pre
       /\ store = JSONStringify(cmd.pre)

C3_Witness ==
  /\ JustUndone("add") /\ ~HasId(cmd.pre, cmd.book.id)
  /\ Len(cmd.pre) >= 1
  /\ books[cmd.lib] = cmd.pre

----------------------------------------------------------------------------
(* Construction over a damaged store *)

\* the step is the call new Library() for the instance last'.lib
ConstructStep == Idle /\ last'.op = "construct"

ValidJson(item) == item.kind = "json"
Present(item) == item.kind # "absent"

\* C6: a persisted value that is present and is no valid JSON makes the
\* construction log an error, delete the key and start with an empty
\* collection.
C6_UnparsableCleared ==
  [][(ConstructStep /\ Present(store) /\ ~ValidJson(store))
       => /\ Len(last'.log) = 1 /\ last'.log[1][1] = "Error parsing"
          /\ store' = NoItem
          /\ books'[last'.lib] = << >>]_vars

\* C7: a persisted value that is valid JSON and no array (object, number,
\* string, boolean, null) makes the construction log an error and start
\* with an empty collection, the stored value staying as it was.
C7_NonArrayUntouched ==
  [][(ConstructStep /\ ValidJson(store) /\ store.doc.t # "array")
       => /\ Len(last'.log) = 1 /\ last'.log[1][1] = "Invalid data"
          /\ books'[last'.lib] = << >>
          /\ store' = store]_vars

C7_Witness ==
  /\ last.op = "construct" /\ last.log = << << "Invalid data", "none" >> >>
  /\ store = JsonText(Obj([a |-> Num(1)]))
  /\ constructed[last.lib] /\ books[last.lib] = << >>

\* the three outcomes of a construction; ending empty leaves the store as
\* it was and logs exactly when the value was JSON of the wrong shape
OutcomeEmpty ==
  /\ books'[last'.lib] = << >> /\ store' = store
  /\ (last'.log # << >>) <=> (ValidJson(store) /\ store.doc.t # "array")
OutcomeLoaded ==
  /\ ValidJson(store) /\ store.doc.t = "array"
  /\ Len(books'[last'.lib]) = Len(store.doc.v)
  /\ store' = store /\ last'.log = << >>
OutcomeCleared ==
  /\ books'[last'.lib] = << >> /\ store' = NoItem
  /\ Len(last'.log) = 1 /\ last'.log[1][1] = "Error parsing"

\* C8: whatever the persisted value (absent, empty string, unparsable text,
\* JSON that is no array, an array of book objects, an array with elements
\* that are no objects, such as null), no exception leaves the construction,
\* and it ends empty, loaded, or cleared with the error logged.
C8_ConstructionNeverThrows ==
  [][ConstructStep
       => /\ last'.exc = "none"
          /\ constructed'[last'.lib]
          /\ OutcomeEmpty \/ OutcomeLoaded \/ OutcomeCleared]_vars

C8_Witness ==
  /\ last.op = "construct" /\ last.exc = "none" /\ constructed[last.lib]
  /\ last.log = << << "Error parsing", "TypeError" >> >>
  /\ store = NoItem /\ books[last.lib] = << >>

----------------------------------------------------------------------------
(* Notification *)

MutatingOps == {"addBook", "removeBook", "execute", "undo", "addClick",
                "deleteClick"}

\* C4: every addBook and removeBook call, also a removeBook that matches no
\* entry, runs update once for each registration there was when it was
\* called, in attachment order, all of them before the call returns; and
\* construction, attach, detach and getBooks run no update.
C4_OneNotificationEach ==
  /\ [](/\ Len(received) <= Len(round.start)
        /\ received = SubSeq(round.start, 1, Len(received))
        /\ (Idle /\ last.op \in MutatingOps) =>
              (received = round.start /\ round.start = observers[last.lib]))
  /\ [][(Idle /\ last'.op \in MutatingOps) =>
          (received' = << >> /\ round'.start = observers[last'.lib])]_vars
  /\ [][(Idle /\ last'.op \in {"construct", "attach", "detach", "getBooks"})
          => (received' = received /\ Idle')]_vars

\* a removeBook that removed nothing (the collection is still full) has
\* returned after notifying two different observers
C4_Witness ==
  /\ Idle /\ last.op = "removeBook"
  /\ Len(books[last.lib]) = MaxBooks
  /\ received = << "dom", "spy" >>

\* C5: once detach(o) has returned, no later addBook / removeBook notifies
\* o until o is attached again, however often o was attached before; the
\* other observers keep their registrations and their order, and detaching
\* an observer that is not attached changes nothing.
C5_DetachStops ==
  /\ [](\A L \in Libs : \A o \in detached[L] :
          \A i \in 1..Len(observers[L]) : observers[L][i] # o)
  /\ [][(Idle /\ last'.op \in MutatingOps) =>
          \A i \in 1..Len(round'.list) :
             round'.list[i] \notin detached[round'.lib]]_vars
  /\ [][(~Idle /\ received' # received) =>
          received'[Len(received')] \notin detached[round.lib]]_vars
  /\ [][(Idle /\ last'.op = "detach") =>
          LET L == last'.lib
              o == last'.obs
          IN /\ observers'[L] = SelectSeq(observers[L], LAMBDA x : x # o)
             /\ (\A i \in 1..Len(observers[L]) : observers[L][i] # o)
                  => observers'[L] = observers[L]]_vars

\* a call made after detach("spy") has notified the observer left, twice
C5_Witness ==
  /\ Idle /\ last.op \in {"addBook", "removeBook"}
  /\ detached[last.lib] = {"spy"}
  /\ received = << "dom", "dom" >>

\* C9: from the save of an addBook / removeBook on, at each update of the
\* round and after the call has returned, the persisted snapshot is the
\* serialization of the whole collection as it is now.
C9_SnapshotIsCollection ==
  last.op \in MutatingOps => store = JSONStringify(books[last.lib])

\* inside the round of an addBook, one observer notified, one to go
C9_Witness ==
  /\ ~Idle /\ last.op = "addBook" /\ Len(received) = 1
  /\ Len(books[last.lib]) = 2
  /\ store = JSONStringify(books[last.lib])

----------------------------------------------------------------------------
(* Search *)

\* C10: SearchManager.search and the search button handler, for each
\* strategy and each query, leave the collection, the observer list and the
\* persisted snapshot as they are and run no update; setStrategy changes
\* the manager's active strategy and nothing else.
C10_SearchIsPureRead ==
  /\ [][(Idle /\ last'.op \in {"search", "searchClick"}) =>
          /\ books' = books /\ observers' = observers /\ store' = store
          /\ received' = received /\ round' = round]_vars
  /\ [][(Idle /\ last'.op = "setStrategy") =>
          UNCHANGED << store, constructed, books, observers, round, received,
                       rendered, alerts, cmd, detached >>]_vars

\* the handler has displayed the one match of a year search over two books
C10_Witness ==
  /\ last.op = "searchClick" /\ last.exc = "none" /\ strategy = "year"
  /\ Len(books[DomLibrary]) = 2 /\ observers[DomLibrary] = << "dom" >>
  /\ Len(rendered) = 1 /\ rendered[1].tag = "book-item"
  /\ ~rendered[1].button

----------------------------------------------------------------------------
(* Removal *)

RECURSIVE DeleteId(_, _)
\* bs with every entry of the id deleted, the others in their order
DeleteId(bs, id) ==
  IF bs = << >> THEN << >>
  ELSE IF Head(bs).id = id THEN DeleteId(Tail(bs), id)
  ELSE << Head(bs) >> \o DeleteId(Tail(bs), id)

\* C11: removeBook(book) deletes every entry whose id is book.id and no
\* other, the rest keeping their order; when no entry has that id the
\* collection stays as it is, and is still persisted and notified.
C11_RemovesAllOfId ==
  [][(Idle /\ last'.op = "removeBook") =>
       LET L == last'.lib
           id == last'.book.id
       IN /\ books'[L] = DeleteId(books[L], id)
          /\ (\A i \in 1..Len(books[L]) : books[L][i].id # id)
               => books'[L] = books[L]
          /\ \A i \in 1..Len(books'[L]) : books'[L][i].id # id
          /\ store' = JSONStringify(books'[L])
          /\ round'.list = observers[L] /\ round'.idx = 1
          /\ received' = << >>]_vars

\* removeBook(Ring) has returned, two observers notified, Dune is left
C11_Witness ==
  /\ Idle /\ last.op = "removeBook" /\ last.book = Ring
  /\ books[last.lib] = << Dune >>
  /\ store = JSONStringify(<< Dune >>)
  /\ Len(received) = 2

----------------------------------------------------------------------------
(* Search strategies *)

\* the call that has just returned is search(getBooks(), query) under
\* strategy k
Searched(k) == Idle /\ last.op = "search" /\ strategy = k

\* s is an optional sign and then decimal digits, one at least, nothing else
DenotesInteger(s) ==
  LET body == IF s # << >> /\ Head(s) \in {"-", "+"} THEN Tail(s) ELSE s
  IN body # << >> /\ \A i \in 1..Len(body) : IsDigit(body[i])

RECURSIVE DecimalValue(_)
\* the number a sequence of decimal digits denotes
DecimalValue(ds) ==
  IF ds = << >> THEN 0
  ELSE 10 * DecimalValue(SubSeq(ds, 1, Len(ds) - 1)) + DigitValue(ds[Len(ds)])

\* the integer s denotes
IntegerOf(s) ==
  IF Head(s) = "-" THEN 0 - DecimalValue(Tail(s))
  ELSE IF Head(s) = "+" THEN DecimalValue(Tail(s))
  ELSE DecimalValue(s)

\* C12: year search returns nothing, without an error, for a query that
\* does not denote an integer, and otherwise exactly the books whose year
\* is the integer the query denotes, in collection order.
C12_YearSearchByInteger ==
  Searched("year") =>
    LET q == last.input[1]
        bs == books[last.lib]
    IN /\ last.exc = "none"
       /\ last.hits =
            IF DenotesInteger(q)
              THEN SelectSeq(bs, LAMBDA b : b.year = Num(IntegerOf(q)))
              ELSE << >>

\* needle occurs in hay, letters compared without regard to case
ContainsCI(hay, needle) ==
  \E k \in 0..(Len(hay) - Len(needle)) :
     \A i \in 1..Len(needle) : LowerChar(hay[k + i]) = LowerChar(needle[i])

\* every book of bs has a string under the field
AllStrings(bs, field) == \A i \in 1..Len(bs) : bs[i][field].t = "string"

----------------------------------------------------------------------------
(* Input validation *)

\* the three input fields hold a title, an author and a numeric year
ValidInput(in) ==
  in[1] # << >> /\ in[2] # << >> /\ DenotesInteger(in[3])

\* C14: a click on Add with an empty title, an empty author or a year that
\* is not numeric gives an alert and changes nothing (collection, snapshot,
\* rendered list, no observer notified); only input with a title, an author
\* and a numeric year reaches addBook.
C14_InvalidAddAborts ==
  [][(Idle /\ last'.op = "addClick" /\ ~ValidInput(last'.input)) =>
       /\ Len(alerts') = 1
       /\ last'.book = NoBook
       /\ UNCHANGED << books, store, rendered, received, round >>]_vars

----------------------------------------------------------------------------
(* Lifetime of an entry *)

\* C15: once a Library is constructed, an entry leaves its collection only
\* in a removeBook step whose argument has the entry's id; addBook appends
\* one entry at the end and nothing else; attach, detach, notify, getBooks
\* and search leave the collection as it is, order included.
C15_LeavesOnlyByRemove ==
  [][last'.op # "construct" =>
       \A L \in Libs :
         books'[L] =
           IF Idle /\ last'.lib = L /\ last'.op = "removeBook"
             THEN DeleteId(books[L], last'.book.id)
           ELSE IF Idle /\ last'.lib = L /\ last'.op = "addBook"
             THEN Append(books[L], last'.book)
           ELSE books[L]]_vars

\* Ring and Dune are still there, in this order, after a detach, a round of
\* notifications and a search
C15_Witness ==
  /\ Idle /\ last.op = "search"
  /\ books[last.lib] = << Ring, Dune >>
  /\ received = << "dom" >>
  /\ detached[last.lib] = {"dom"}

----------------------------------------------------------------------------
(* Registrations *)

\* the number of times o occurs in list
Occurrences(list, o) == Cardinality({i \in 1..Len(list) : list[i] = o})

\* C16: attach registers the observer once more, registered already or
\* not; an observer registered k times gets k notifications from each
\* addBook or removeBook, at the positions of its k registrations.
C16_AttachKeepsDuplicates ==
  [][/\ (Idle /\ last'.op = "attach") =>
          LET L == last'.lib IN
          /\ observers'[L] = Append(observers[L], last'.obs)
          /\ Occurrences(observers'[L], last'.obs)
               = Occurrences(observers[L], last'.obs) + 1
     /\ (Idle' /\ last'.op \in {"addBook", "removeBook"}) =>
          /\ \A o \in Observers :
               Occurrences(received', o)
                 = Occurrences(observers'[last'.lib], o)
          /\ \A i \in 1..Len(received') :
               received'[i] = observers'[last'.lib][i]]_vars

\* spy, attached twice, has been notified twice by one addBook
C16_Witness ==
  /\ Idle /\ last.op = "addBook"
  /\ observers[last.lib] = << "spy", "spy" >>
  /\ received = << "spy", "spy" >>

----------------------------------------------------------------------------
(* Rendering *)

\* list shows one block per book of bs, in order, each with or without a
\* Delete button for its book
ShowsBlocks(list, bs, button) ==
  /\ Len(list) = Len(bs)
  /\ \A i \in 1..Len(bs) :
       /\ list[i].tag = "book-item"
       /\ list[i].book = bs[i]
       /\ list[i].info = << bs[i].title, bs[i].author, bs[i].year >>
       /\ list[i].button = button

\* C17: with the render observer attached, once an addBook or removeBook
\* has completed the rendered list is one block per book in collection
\* order, whatever was shown before; a search display takes the place of
\* the rendered list and leaves the collection alone, and the next
\* notification takes its place in turn.
C17_RenderedFollowsCollection ==
  [][/\ (/\ Idle'
         /\ last'.op = "deleteClick" \/ (last'.op = "addClick" /\ alerts' = << >>)
         /\ Occurrences(observers'[DomLibrary], "dom") > 0)
          => ShowsBlocks(rendered', books'[DomLibrary], TRUE)
     /\ (Idle /\ last'.op = "searchClick" /\ alerts' = << >>
           /\ last'.exc = "none")
          => /\ books' = books
             /\ IF last'.hits = << >>
                  THEN rendered' = << NoBooksFound >>
                  ELSE ShowsBlocks(rendered', last'.hits, FALSE)]_vars

\* a second book has been added through the page and both are shown
C17_Witness ==
  /\ Idle /\ last.op = "addClick" /\ alerts = << >>
  /\ Len(books[DomLibrary]) = 2
  /\ Len(rendered) = 2
  /\ rendered[2].book = last.book /\ rendered[2].button

----------------------------------------------------------------------------
(* The array getBooks hands out *)

\* C18 as stated: an array got from getBooks() goes on being the Library's
\* collection after any later addBook and removeBook calls: its contents
\* are what a new getBooks() returns.
C18_HandleStaysLive ==
  handle.held => handle.contents = books[handle.lib]

\* C18 amended: an array got from getBooks() is the Library's collection
\* until the next removeBook: it sees each addBook, made in place, but
\* removeBook gives the Library a new array, and from then on the array
\* kept holds what it held before that removeBook, whatever is added or
\* removed later.
C18_HandleLiveUntilRemove ==
  [][(handle.held /\ Idle /\ last'.lib = handle.lib) =>
       /\ (last'.op = "addBook" /\ handle.same)
            => /\ handle'.contents = books'[handle.lib]
               /\ handle'.contents = Append(handle.contents, last'.book)
       /\ (last'.op = "addBook" /\ ~handle.same)
            => handle'.contents = handle.contents
       /\ last'.op = "removeBook"
            => /\ handle'.contents = handle.contents
               /\ ~handle'.same]_vars

\* the array kept still holds Ring, removed since; the Library holds Dune,
\* added after the removal
C18_Witness ==
  /\ Idle /\ handle.held /\ last.op = "addBook" /\ last.book = Dune
  /\ handle.contents = << Ring >>
  /\ books[handle.lib] = << Dune >>

----------------------------------------------------------------------------
(* Two instances over one store *)

\* C19: two Library instances over the same store do not merge their
\* writes: a mutation through one works on that instance's own collection,
\* never on the store's content, leaves the other instance as it is, and
\* overwrites the snapshot with the mutating instance's collection alone.
C19_LastWriterWins ==
  [][(Idle /\ last'.op \in {"addBook", "removeBook"}) =>
       LET L == last'.lib IN
       /\ books'[L] = IF last'.op = "addBook"
                        THEN Append(books[L], last'.book)
                        ELSE DeleteId(books[L], last'.book.id)
       /\ \A O \in Libs \ {L} : books'[O] = books[O]
       /\ store' = JSONStringify(books'[L])]_vars

\* A holds Ring, B has just added Dune: the snapshot holds Dune alone
C19_Witness ==
  /\ Idle /\ last.op = "addBook" /\ last.lib = "B"
  /\ constructed["A"] /\ constructed["B"]
  /\ books["A"] = << Ring >>
  /\ books["B"] = << Dune >>
  /\ store = JSONStringify(<< Dune >>)

----------------------------------------------------------------------------
(* Attach and detach from inside update *)

\* C20: what an observer's update does to the observer list does not touch
\* the round under way: the observers registered when the round started
\* are notified once per registration, in order, detached meanwhile or
\* not, and an observer attached meanwhile is registered at the end of the
\* list and notified from the next round on.
C20_RoundFixedAtStart ==
  [][/\ ~Idle =>
          /\ Len(received) < Len(round.start)
          /\ received' = Append(received, round.start[Len(received) + 1])
          /\ round'.start = round.start
          /\ \A x \in Observers :
               Occurrences(observers'[round.lib], x)
                   > Occurrences(observers[round.lib], x)
                 => observers'[round.lib] = Append(observers[round.lib], x)
     /\ (~Idle /\ Idle') => received' = round.start
     /\ (Idle /\ ~Idle') => round'.start = observers[round'.lib]]_vars

\* a round over spy, spy has ended: the first update detached spy, the
\* second attached dom; both registrations were notified, dom was not
C20_Witness ==
  /\ Idle /\ last.op = "addBook"
  /\ round.start = << "spy", "spy" >>
  /\ received = << "spy", "spy" >>
  /\ observers[last.lib] = << "dom" >>

====
